---- MODULE Spec2Model ----
(***************************************************************************)
(* Model of the IBSng backup/restore orchestrator (src/bot.py; src/main.py *)
(* is the earlier variant of the same program without /time).              *)
(*                                                                         *)
(* Time is counted in ticks of TickSeconds seconds.  Every thread of the   *)
(* program is a process of the model: the scheduler thread, the threads    *)
(* spawned by /backup, the transport's handler workers and the restore     *)
(* threads.  load_config and save_config hold config_lock for exactly the  *)
(* duration of one file read or write, so each is one atomic step.         *)
(***************************************************************************)
EXTENDS Integers, Sequences, FiniteSets, TLC

\* ---------------------------------------------------------------- bounds
MaxTime == 3
MaxForced == 1
NumWorkers == 2
MaxRestores == 2
MaxFaults == 1
MaxLeftover == 1
MaxStream == 9000

\* ------------------------------------------------------ program constants
RETENTION_DAYS == 3
POLL_INTERVAL_HOURS == 1
DEFAULT_MIN_INTERVAL_HOURS == 2
HourSeconds == 3600
DaySeconds == 86400
TickSeconds == 3600
READ_SIZE == 1000
FLUSH_THRESHOLD == 3500

Sched == 0
Forced == 1..MaxForced
BackupProcs == {Sched} \cup Forced
NoProc == -1

\* ----------------------------------------------------- python-like values
IntVal(n) == [kind |-> "int", num |-> n, txt |-> ""]
StrVal(s) == [kind |-> "str", num |-> 0, txt |-> s]
NoneVal == [kind |-> "none", num |-> 0, txt |-> ""]

DecimalOf(n) ==
    CASE n = 0 -> "0"
      [] n = 1 -> "1"
      [] n = 2 -> "2"
      [] OTHER -> "9"

\* str(x)
Str(v) ==
    CASE v.kind = "int" -> DecimalOf(v.num)
      [] v.kind = "str" -> v.txt
      [] OTHER -> "None"

\* truth value of x in a condition
Truthy(v) ==
    CASE v.kind = "int" -> v.num # 0
      [] v.kind = "str" -> v.txt # ""
      [] OTHER -> FALSE

\* ------------------------------------------------------------ Config Store
\* A configuration dict; an absent key is "" / NoneVal / 0.
EmptyCfg ==
    [bot_token |-> "", chat_id |-> NoneVal, last_backup |-> 0, min_interval_hours |-> 0]

VARIABLES
    now,                \* time.time(), in ticks
    file,               \* contents of CONFIG_FILE
    bot_token,          \* module global bot_token
    chat_id,            \* module global chat_id
    MIN_INTERVAL_HOURS, \* module global MIN_INTERVAL_HOURS
    faultsLeft,         \* failures of reading or writing CONFIG_FILE still to come
    config_lock,        \* holder of config_lock, or NoHolder
    backup_lock,        \* holder of backup_lock, or NoProc
    bpc,                \* position of each run_backup_process caller
    config_data,        \* local config_data of each caller
    invoked,            \* the caller's current execution ran BACKUP_SCRIPT
    artifact,           \* backup_file_path of the current execution, 0 if none
    upload,             \* outcome of the upload of the current execution
    result,             \* return value of the last execution of the caller
    attemptAt,          \* time of the interval check of the latest unforced attempt
    backupDir,          \* files in BACKUP_DIR
    spc,                \* position of backup_polling_thread
    sleepLeft,          \* remaining iterations of the scheduler's sleep loop
    shutdown_flag,
    exited,             \* the main thread has left main()
    botActive,          \* main() created the bot and its handlers
    user_states,        \* user_states[chat id]
    wpc,                \* position of each handler worker
    wmsg,               \* the message the worker is handling
    wcfg,               \* local config_data of handle_time_command
    tempDir,            \* names of the files in TEMP_DIR
    rpc,                \* position of each run_restore_process thread
    rfile,              \* file_path of each run_restore_process thread
    process,            \* the child of each run_restore_process thread
    output_buffer,      \* output_buffer of each run_restore_process thread
    sent,               \* the messages each restore thread has sent to the chat
    restore_script,     \* what a run of RESTORE_SCRIPT prints and returns
    callsMayFail,       \* Popen and bot.send_message can raise
    handled,            \* the handler step taken by the last step, if any
    reply               \* the reply sent by the last step, if any

vars == <<now, file, bot_token, chat_id, MIN_INTERVAL_HOURS, faultsLeft,
          config_lock, backup_lock,
          bpc, config_data, invoked, artifact, upload, result, attemptAt,
          backupDir, spc, sleepLeft, shutdown_flag, exited,
          botActive, user_states, wpc, wmsg, wcfg, tempDir, rpc, rfile,
          process, output_buffer, sent, restore_script, callsMayFail,
          handled, reply>>

cfgVars == <<file, bot_token, chat_id, MIN_INTERVAL_HOURS, faultsLeft, config_lock>>
histVars == <<attemptAt>>
schedVars == <<spc, sleepLeft>>
execVars == <<backup_lock, bpc, config_data, invoked, artifact, upload, result,
              backupDir>>
workerVars == <<wpc, wmsg, wcfg>>
relayVars == <<process, output_buffer, sent, restore_script, callsMayFail>>
restoreVars == <<tempDir, rpc, rfile, relayVars>>
botVars == <<botActive, user_states, workerVars, restoreVars>>

Workers == 1..NumWorkers
Restores == 1..MaxRestores

\* ------------------------------------------------------------------ messages
TargetChat == 1
OtherChat == 2
Senders == {TargetChat, OtherChat}

BakSuffix == <<".", "b", "a", "k">>
DumpGzSuffix == <<".", "d", "u", "m", "p", ".", "g", "z">>

DocNames ==
    { <<"a">> \o BakSuffix,
      <<"a">> \o DumpGzSuffix,
      <<"b", "a", "k">> }

Digits == {"0", "1", "2", "3", "4", "5", "6", "7", "8", "9"}
\* characters for which str.isdigit() holds and int() raises ValueError
OtherDigits == {"sup2"}

\* arguments of /time that are missing, not an integer or not positive
InvalidTimeArgs == { <<>>, <<"a">>, <<"-", "1">>, <<"0">>, <<"sup2">> }

TimeArgs == InvalidTimeArgs \cup { <<"1">>, <<"0", "3">> }

Msg(sender, kind, text) == [sender |-> sender, kind |-> kind, text |-> text]
NoMsg == Msg(0, "none", <<>>)

Messages ==
    {Msg(s, k, <<>>) : s \in Senders, k \in {"status", "backup", "restore", "cancel"}}
      \cup {Msg(s, "time", a) : s \in Senders, a \in TimeArgs}
      \cup {Msg(s, "document", n) : s \in Senders, n \in DocNames}

Event(w, m, step) == [worker |-> w, msg |-> m, step |-> step]
NoEvent == Event(0, NoMsg, "none")

\* a step that is not a handler step
Quiet == handled' = NoEvent /\ reply' = "none"

\* the process is gone: main() has exited and no non-daemon thread is left
Halted ==
    /\ exited
    /\ \A f \in Forced : bpc[f] = "idle"
    /\ \A r \in Restores : rpc[r] = "idle"

\* load_config(): the dict returned and the assignments to the globals.
\* A failed read returns {} and leaves the globals alone.
LoadResults ==
    {[ok |-> TRUE, cfg |-> file]}
      \cup (IF faultsLeft > 0 THEN {[ok |-> FALSE, cfg |-> EmptyCfg]} ELSE {})

LoadData(r) ==
    /\ bot_token' = IF r.ok THEN r.cfg.bot_token ELSE bot_token
    /\ chat_id' = IF r.ok THEN r.cfg.chat_id ELSE chat_id
    /\ faultsLeft' = IF r.ok THEN faultsLeft ELSE faultsLeft - 1

\* the threads that take config_lock
NoHolder == <<>>
ExecThread(p) == <<"run_backup_process", p>>
HandlerThread(w) == <<"handler", w>>

\* a lock left held by the block that took it
ReleasedNever(holder) == holder

\* with config_lock: the lock is released when the block is left, by its end,
\* by the return or by an exception
Released(holder) == NoHolder

\* load_config() as one step: with config_lock: ...
LoadEffect(r) ==
    /\ config_lock = NoHolder
    /\ config_lock' = config_lock
    /\ LoadData(r)

\* save_config(config_data): ok = TRUE writes the dict, ok = FALSE is the
\* caught exception.
SaveResults == IF faultsLeft > 0 THEN {TRUE, FALSE} ELSE {TRUE}

SaveData(cfg, ok) ==
    /\ file' = IF ok THEN cfg ELSE file
    /\ faultsLeft' = IF ok THEN faultsLeft ELSE faultsLeft - 1

\* save_config(config_data) as one step: with config_lock: ...
SaveEffect(cfg, ok) ==
    /\ config_lock = NoHolder
    /\ config_lock' = config_lock
    /\ SaveData(cfg, ok)

\* ---------------------------------------------------------- Backup Executor
MinIntervalOf(cfg) ==
    IF cfg.min_interval_hours # 0 THEN cfg.min_interval_hours ELSE MIN_INTERVAL_HOURS

\* the throttle of src/main.py: the interval of the configuration is ignored
check_backup_interval_global(cfg, t) ==
    IF cfg.last_backup # 0
    THEN ~((t - cfg.last_backup) * TickSeconds < MIN_INTERVAL_HOURS * HourSeconds)
    ELSE TRUE

\* check_backup_interval(config_data) evaluated at time t
check_backup_interval(cfg, t) ==
    IF cfg.last_backup # 0
    THEN ~((t - cfg.last_backup) * TickSeconds < MinIntervalOf(cfg) * HourSeconds)
    ELSE TRUE

\* files of BACKUP_DIR
File(path, suffix, mtime, size) ==
    [path |-> path, artifact_suffix |-> suffix, mtime |-> mtime, size |-> size]

OldMtime == 1 - ((RETENTION_DAYS * DaySeconds) \div TickSeconds)

InitialDir ==
    { File(-1, TRUE, OldMtime, 1),
      File(-2, FALSE, OldMtime, 1),
      File(-3, TRUE, OldMtime + 2, 1),
      File(-4, TRUE, 1 - ((2 * DaySeconds) \div TickSeconds), 1),
      File(-5, TRUE, 1 - ((4 * DaySeconds) \div TickSeconds), 1) }

\* a sweep that does not look at the suffix
ExpiredAnySuffix(f, t) ==
    f.mtime * TickSeconds < t * TickSeconds - RETENTION_DAYS * DaySeconds

\* the retention sweep at time t
Expired(f, t) ==
    /\ f.artifact_suffix
    /\ f.mtime * TickSeconds < t * TickSeconds - RETENTION_DAYS * DaySeconds

Sweep(dir, t) == {f \in dir : ~Expired(f, t)}

\* files a failed run of BACKUP_SCRIPT has left behind
Leftover(dir) == {f \in dir : f.size = 0}

\* outcomes of one run of BACKUP_SCRIPT
ScriptOutcomes ==
    {"exit_nonzero", "no_path_line", "missing_file", "empty_file", "valid"}

\* a lock that never blocks
AcquireNoWait(p) == TRUE

\* with backup_lock: the caller gets past this line when the lock is free
Acquire(p) == backup_lock = NoProc

\* the throttle applied to forced calls too
ThrottledAlways(p, cfg, t) == ~check_backup_interval(cfg, t)

\* if not force and not check_backup_interval(config_data): return False
Throttled(p, cfg, t) == p \notin Forced /\ ~check_backup_interval(cfg, t)

\* with backup_lock: load_config(); the throttle
Enter(p) ==
    /\ ~Halted
    /\ bpc[p] = "wait"
    /\ Acquire(p)
    /\ \E r \in LoadResults :
        /\ LoadEffect(r)
        /\ config_data' = [config_data EXCEPT ![p] = r.cfg]
        /\ IF p = Sched
           THEN attemptAt' = now
           ELSE UNCHANGED histVars
        /\ IF Throttled(p, r.cfg, now)
           THEN /\ backup_lock' = backup_lock
                /\ bpc' = [bpc EXCEPT ![p] = "returned"]
                /\ result' = [result EXCEPT ![p] = "skipped"]
           ELSE /\ backup_lock' = p
                /\ bpc' = [bpc EXCEPT ![p] = "script"]
                /\ result' = [result EXCEPT ![p] = "none"]
    /\ Quiet
    /\ UNCHANGED <<now, file, MIN_INTERVAL_HOURS, invoked, artifact, upload,
                   backupDir, schedVars, shutdown_flag, exited, botVars>>

\* a validation that accepts an empty artifact
ValidatedIfExists(o) == o \in {"valid", "empty_file"}

\* check=True; if backup_file_path and os.path.exists(...) and getsize(...) > 0
Validated(o) == o = "valid"

\* subprocess.run([BACKUP_SCRIPT]) and the validation of its artifact
RunScript(p) ==
    /\ ~Halted
    /\ bpc[p] = "script"
    /\ \E o \in ScriptOutcomes :
        /\ o = "empty_file" => Cardinality(Leftover(backupDir)) < MaxLeftover
        /\ invoked' = [invoked EXCEPT ![p] = TRUE]
        /\ backupDir' =
              IF o \in {"empty_file", "valid"}
              THEN {f \in backupDir : f.path # now}
                     \cup {File(now, TRUE, now, IF o = "valid" THEN 1 ELSE 0)}
              ELSE backupDir
        /\ IF Validated(o)
           THEN /\ artifact' = [artifact EXCEPT ![p] = now]
                /\ IF config_data[p].bot_token # "" /\ Truthy(config_data[p].chat_id)
                   THEN /\ bpc' = [bpc EXCEPT ![p] = "upload"]
                        /\ upload' = upload
                   ELSE /\ bpc' = [bpc EXCEPT ![p] = "record"]
                        /\ upload' = [upload EXCEPT ![p] = "no_credentials"]
                /\ UNCHANGED <<backup_lock, result>>
           ELSE /\ backup_lock' = NoProc
                /\ bpc' = [bpc EXCEPT ![p] = "returned"]
                /\ result' = [result EXCEPT ![p] = "failed"]
                /\ UNCHANGED <<artifact, upload>>
    /\ Quiet
    /\ UNCHANGED <<now, cfgVars, config_data, histVars, schedVars,
                   shutdown_flag, exited, botVars>>

\* send_to_telegram(backup_file_path, ...)
Upload(p) ==
    /\ ~Halted
    /\ bpc[p] = "upload"
    /\ \E ok \in BOOLEAN :
        /\ upload' = [upload EXCEPT ![p] = IF ok THEN "sent" ELSE "failed"]
        /\ bpc' = [bpc EXCEPT ![p] = IF ok THEN "record" ELSE "cleanup"]
    /\ Quiet
    /\ UNCHANGED <<now, cfgVars, backup_lock, config_data, invoked, artifact,
                   result, histVars, backupDir, schedVars, shutdown_flag, exited,
                   botVars>>

\* config_data['last_backup'] = time.time(); save_config(config_data)
Record(p) ==
    /\ ~Halted
    /\ bpc[p] = "record"
    /\ \E ok \in SaveResults :
        /\ config_data' = [config_data EXCEPT ![p].last_backup = now]
        /\ SaveEffect(config_data'[p], ok)
    /\ bpc' = [bpc EXCEPT ![p] = "cleanup"]
    /\ Quiet
    /\ UNCHANGED <<now, bot_token, chat_id, MIN_INTERVAL_HOURS, backup_lock,
                   invoked, artifact, upload, result, histVars, backupDir,
                   schedVars, shutdown_flag, exited, botVars>>

\* the artifact kept for a retry when the upload failed
RemoveArtifactIfSent(dir, path, uploaded) ==
    IF uploaded = "failed" THEN dir ELSE {f \in dir : f.path # path}

\* finally: os.remove(backup_file_path)
RemoveArtifact(dir, path, uploaded) == {f \in dir : f.path # path}

\* finally: os.remove(backup_file_path); the retention sweep; return True
Cleanup(p) ==
    /\ ~Halted
    /\ bpc[p] = "cleanup"
    /\ backupDir' = Sweep(RemoveArtifact(backupDir, artifact[p], upload[p]), now)
    /\ backup_lock' = NoProc
    /\ bpc' = [bpc EXCEPT ![p] = "returned"]
    /\ result' = [result EXCEPT ![p] = "success"]
    /\ Quiet
    /\ UNCHANGED <<now, cfgVars, config_data, invoked, artifact, upload,
                   histVars, schedVars, shutdown_flag, exited, botVars>>

\* the locals of a finished execution
ClearLocals(p) ==
    /\ config_data' = [config_data EXCEPT ![p] = EmptyCfg]
    /\ invoked' = [invoked EXCEPT ![p] = FALSE]
    /\ artifact' = [artifact EXCEPT ![p] = 0]
    /\ upload' = [upload EXCEPT ![p] = "none"]
    /\ result' = [result EXCEPT ![p] = "none"]

\* a failure report that also covers the upload that failed
ReportsFailureUnsent(success, uploaded) == success # "success" \/ uploaded = "failed"

\* if not success: bot.send_message(message.chat.id, error_msg)
ReportsFailure(success, uploaded) == success # "success"

\* run_backup_and_notify: if not success: bot.send_message(...); thread ends
Notify(f) ==
    /\ ~Halted
    /\ bpc[f] = "returned"
    /\ f \in Forced
    /\ bpc' = [bpc EXCEPT ![f] = "idle"]
    /\ ClearLocals(f)
    /\ handled' = NoEvent
    /\ reply' = IF ReportsFailure(result[f], upload[f])
                THEN "backup_failed" ELSE "none"
    /\ UNCHANGED <<now, cfgVars, backup_lock, histVars, backupDir, schedVars,
                   shutdown_flag, exited, botVars>>

\* ---------------------------------------- the executor, one lock step a time
\* with backup_lock:
EnterLock(p) ==
    /\ ~Halted
    /\ bpc[p] = "wait"
    /\ Acquire(p)
    /\ backup_lock' = p
    /\ bpc' = [bpc EXCEPT ![p] = "load"]
    /\ Quiet
    /\ UNCHANGED <<now, cfgVars, config_data, invoked, artifact, upload, result,
                   histVars, backupDir, schedVars, shutdown_flag, exited, botVars>>

\* load_config(): with config_lock:
LoadLock(p) ==
    /\ ~Halted
    /\ bpc[p] = "load"
    /\ config_lock = NoHolder
    /\ config_lock' = ExecThread(p)
    /\ bpc' = [bpc EXCEPT ![p] = "load_locked"]
    /\ Quiet
    /\ UNCHANGED <<now, file, bot_token, chat_id, MIN_INTERVAL_HOURS, faultsLeft,
                   backup_lock, config_data, invoked, artifact, upload, result,
                   histVars, backupDir, schedVars, shutdown_flag, exited, botVars>>

\* load_config(): the read, the end of the with block; the throttle
LoadUnlock(p) ==
    /\ ~Halted
    /\ bpc[p] = "load_locked"
    /\ \E r \in LoadResults :
        /\ LoadData(r)
        /\ config_lock' = Released(config_lock)
        /\ config_data' = [config_data EXCEPT ![p] = r.cfg]
        /\ IF p = Sched
           THEN attemptAt' = now
           ELSE UNCHANGED histVars
        /\ IF Throttled(p, r.cfg, now)
           THEN /\ backup_lock' = NoProc
                /\ bpc' = [bpc EXCEPT ![p] = "returned"]
                /\ result' = [result EXCEPT ![p] = "skipped"]
           ELSE /\ backup_lock' = backup_lock
                /\ bpc' = [bpc EXCEPT ![p] = "script"]
                /\ result' = [result EXCEPT ![p] = "none"]
    /\ Quiet
    /\ UNCHANGED <<now, file, MIN_INTERVAL_HOURS, invoked, artifact, upload,
                   backupDir, schedVars, shutdown_flag, exited, botVars>>

\* config_data['last_backup'] = time.time(); save_config(): with config_lock:
SaveLock(p) ==
    /\ ~Halted
    /\ bpc[p] = "record"
    /\ config_lock = NoHolder
    /\ config_lock' = ExecThread(p)
    /\ config_data' = [config_data EXCEPT ![p].last_backup = now]
    /\ bpc' = [bpc EXCEPT ![p] = "save_locked"]
    /\ Quiet
    /\ UNCHANGED <<now, file, bot_token, chat_id, MIN_INTERVAL_HOURS, faultsLeft,
                   backup_lock, invoked, artifact, upload, result, histVars,
                   backupDir, schedVars, shutdown_flag, exited, botVars>>

\* save_config(): the write, the end of the with block
SaveUnlock(p) ==
    /\ ~Halted
    /\ bpc[p] = "save_locked"
    /\ \E ok \in SaveResults : SaveData(config_data[p], ok)
    /\ config_lock' = Released(config_lock)
    /\ bpc' = [bpc EXCEPT ![p] = "cleanup"]
    /\ Quiet
    /\ UNCHANGED <<now, bot_token, chat_id, MIN_INTERVAL_HOURS, backup_lock,
                   config_data, invoked, artifact, upload, result, histVars,
                   backupDir, schedVars, shutdown_flag, exited, botVars>>

\* -------------------------------------------------------- Backup Scheduler
SleepIterations == (POLL_INTERVAL_HOURS * HourSeconds) \div TickSeconds

\* while not shutdown_flag: run_backup_process(force=False)
SchedLoop ==
    /\ ~Halted
    /\ spc = "loop"
    /\ IF shutdown_flag
       THEN /\ spc' = "stopped"
            /\ bpc' = bpc
       ELSE /\ spc' = "backup"
            /\ bpc' = [bpc EXCEPT ![Sched] = "wait"]
    /\ Quiet
    /\ UNCHANGED <<now, cfgVars, backup_lock, config_data, invoked, artifact,
                   upload, result, histVars, backupDir, sleepLeft,
                   shutdown_flag, exited, botVars>>

\* a loop that gives up after a cycle that was not a success
AfterCycleStopOnFailure(backup_success) ==
    IF backup_success \in {"success", "skipped"} THEN "sleep" ELSE "stopped"

\* after run_backup_process, whatever it returned: the wait for the next check
AfterCycle(backup_success) == "sleep"

\* a sleep that only ends when all its iterations are done
SleepOverWhenExhausted(left, flag) == left = 0

\* for _ in range(wait_seconds): if shutdown_flag: break
SleepOver(left, flag) == left = 0 \/ flag

\* run_backup_process returned; for _ in range(wait_seconds)
SchedReturned ==
    /\ ~Halted
    /\ spc = "backup"
    /\ bpc[Sched] = "returned"
    /\ bpc' = [bpc EXCEPT ![Sched] = "idle"]
    /\ ClearLocals(Sched)
    /\ spc' = AfterCycle(result[Sched])
    /\ sleepLeft' = SleepIterations
    /\ Quiet
    /\ UNCHANGED <<now, cfgVars, backup_lock, histVars, backupDir,
                   shutdown_flag, exited, botVars>>

\* the sleep loop ends: range exhausted, or shutdown_flag seen
SchedWake ==
    /\ ~Halted
    /\ spc = "sleep"
    /\ SleepOver(sleepLeft, shutdown_flag)
    /\ spc' = "loop"
    /\ sleepLeft' = 0
    /\ Quiet
    /\ UNCHANGED <<now, cfgVars, execVars, histVars, shutdown_flag, exited,
                   botVars>>

\* one tick of time passes; a sleeping scheduler finishes one time.sleep
Tick ==
    /\ ~Halted
    /\ now < MaxTime
    /\ now' = now + 1
    /\ sleepLeft' = IF spc = "sleep" /\ sleepLeft > 0 /\ ~shutdown_flag
                    THEN sleepLeft - 1 ELSE sleepLeft
    /\ Quiet
    /\ UNCHANGED <<cfgVars, execVars, histVars, spc, shutdown_flag, exited,
                   botVars>>

\* signal_handler
Signal ==
    /\ ~exited
    /\ ~shutdown_flag
    /\ shutdown_flag' = TRUE
    /\ Quiet
    /\ UNCHANGED <<now, cfgVars, execVars, histVars, schedVars, exited, botVars>>

\* main(): while not shutdown_flag: time.sleep(1); sys.exit(0)
MainExit ==
    /\ ~exited
    /\ shutdown_flag
    /\ exited' = TRUE
    /\ Quiet
    /\ UNCHANGED <<now, cfgVars, execVars, histVars, schedVars, shutdown_flag,
                   botVars>>

\* ----------------------------------------------------------- Command Router
\* a handler without the permission check
AuthorizedAny(m) == TRUE

\* str(message.chat.id) != str(chat_id)
Authorized(m) == Str(IntVal(m.sender)) = Str(chat_id)

\* a worker of the transport takes message m: the first idle one
Takes(w, m) ==
    /\ ~Halted
    /\ botActive
    /\ wpc[w] = "idle"
    /\ \A v \in Workers : wpc[v] = "idle" => w <= v
    /\ handled' = Event(w, m, "first")

HandleDenied(w, m) ==
    /\ m.kind \in {"status", "backup", "time", "restore", "cancel"}
    /\ Takes(w, m)
    /\ ~Authorized(m)
    /\ reply' = "unauthorized"
    /\ UNCHANGED <<now, cfgVars, execVars, histVars, schedVars, shutdown_flag,
                   exited, botVars>>

handle_status_command(w, m) ==
    /\ m.kind = "status"
    /\ Takes(w, m)
    /\ Authorized(m)
    /\ \E r \in LoadResults : LoadEffect(r)
    /\ reply' = "status"
    /\ UNCHANGED <<now, file, MIN_INTERVAL_HOURS, execVars, histVars, schedVars,
                   shutdown_flag, exited, botVars>>

handle_backup_command(w, m) ==
    /\ m.kind = "backup"
    /\ Takes(w, m)
    /\ Authorized(m)
    /\ \E f \in Forced :
        /\ bpc[f] = "idle"
        /\ \A g \in Forced : bpc[g] = "idle" => f <= g
        /\ bpc' = [bpc EXCEPT ![f] = "wait"]
    /\ reply' = "backup_started"
    /\ UNCHANGED <<now, cfgVars, backup_lock, config_data, invoked, artifact,
                   upload, result, backupDir, histVars, schedVars, shutdown_flag,
                   exited, botVars>>

\* /status, one lock step a time: the permission check
StatusTake(w, m) ==
    /\ m.kind = "status"
    /\ Takes(w, m)
    /\ Authorized(m)
    /\ wpc' = [wpc EXCEPT ![w] = "status_load"]
    /\ wmsg' = [wmsg EXCEPT ![w] = m]
    /\ reply' = "none"
    /\ UNCHANGED <<now, cfgVars, execVars, histVars, schedVars, shutdown_flag,
                   exited, botActive, user_states, wcfg, restoreVars>>

\* config_data = load_config(): with config_lock:
StatusLock(w) ==
    /\ ~Halted
    /\ wpc[w] = "status_load"
    /\ config_lock = NoHolder
    /\ config_lock' = HandlerThread(w)
    /\ wpc' = [wpc EXCEPT ![w] = "status_locked"]
    /\ Quiet
    /\ UNCHANGED <<now, file, bot_token, chat_id, MIN_INTERVAL_HOURS, faultsLeft,
                   execVars, histVars, schedVars, shutdown_flag, exited,
                   botActive, user_states, wmsg, wcfg, restoreVars>>

\* load_config(): the read, the end of the with block; bot.reply_to
StatusUnlock(w) ==
    /\ ~Halted
    /\ wpc[w] = "status_locked"
    /\ \E r \in LoadResults : LoadData(r)
    /\ config_lock' = Released(config_lock)
    /\ handled' = Event(w, wmsg[w], "second")
    /\ reply' = "status"
    /\ wpc' = [wpc EXCEPT ![w] = "idle"]
    /\ wmsg' = [wmsg EXCEPT ![w] = NoMsg]
    /\ UNCHANGED <<now, file, MIN_INTERVAL_HOURS, execVars, histVars, schedVars,
                   shutdown_flag, exited, botActive, user_states, wcfg,
                   restoreVars>>

\* /restore as a toggle of the state
AwaitFileToggle(states, chat) ==
    [states EXCEPT ![chat] = IF @ = "waiting_restore" THEN "None" ELSE "waiting_restore"]

\* user_states[message.chat.id] = 'waiting_restore'
AwaitFile(states, chat) == [states EXCEPT ![chat] = "waiting_restore"]

handle_restore_command(w, m) ==
    /\ m.kind = "restore"
    /\ Takes(w, m)
    /\ Authorized(m)
    /\ user_states' = AwaitFile(user_states, m.sender)
    /\ reply' = "restore_guide"
    /\ UNCHANGED <<now, cfgVars, execVars, histVars, schedVars, shutdown_flag,
                   exited, botActive, workerVars, restoreVars>>

handle_cancel_command(w, m) ==
    /\ m.kind = "cancel"
    /\ Takes(w, m)
    /\ Authorized(m)
    /\ IF user_states[m.sender] = "waiting_restore"
       THEN /\ user_states' = [user_states EXCEPT ![m.sender] = "None"]
            /\ reply' = "cancelled"
       ELSE /\ user_states' = user_states
            /\ reply' = "no_operation"
    /\ UNCHANGED <<now, cfgVars, execVars, histVars, schedVars, shutdown_flag,
                   exited, botActive, workerVars, restoreVars>>

\* str.isdigit()
IsDigit(s) == Len(s) > 0 /\ \A i \in 1..Len(s) : s[i] \in Digits \cup OtherDigits

DigitValue(c) ==
    CASE c = "0" -> 0 [] c = "1" -> 1 [] c = "2" -> 2 [] c = "3" -> 3 [] c = "4" -> 4
      [] c = "5" -> 5 [] c = "6" -> 6 [] c = "7" -> 7 [] c = "8" -> 8 [] OTHER -> 9

\* int(s) of a string of digits: the value, or ValueError
IntRaises(s) == \E i \in 1..Len(s) : s[i] \notin Digits

RECURSIVE IntOf(_)
IntOf(s) ==
    IF Len(s) = 0 THEN 0
    ELSE 10 * IntOf(SubSeq(s, 1, Len(s) - 1)) + DigitValue(s[Len(s)])

\* handle_time_command up to load_config(); m.text is parts[1], <<>> if missing
handle_time_command(w, m) ==
    /\ m.kind = "time"
    /\ Takes(w, m)
    /\ Authorized(m)
    /\ IF ~IsDigit(m.text)
       THEN /\ reply' = "time_help"
            /\ UNCHANGED <<cfgVars, workerVars>>
       ELSE IF IntRaises(m.text)
       THEN /\ reply' = "none"
            /\ UNCHANGED <<cfgVars, workerVars>>
       ELSE IF IntOf(m.text) <= 0
       THEN /\ reply' = "time_not_positive"
            /\ UNCHANGED <<cfgVars, workerVars>>
       ELSE /\ \E r \in LoadResults :
                 /\ LoadEffect(r)
                 /\ wcfg' = [wcfg EXCEPT ![w] =
                              [r.cfg EXCEPT !.min_interval_hours = IntOf(m.text)]]
            /\ wpc' = [wpc EXCEPT ![w] = "time_save"]
            /\ wmsg' = [wmsg EXCEPT ![w] = m]
            /\ reply' = "none"
            /\ UNCHANGED <<file, MIN_INTERVAL_HOURS>>
    /\ UNCHANGED <<now, execVars, histVars, schedVars, shutdown_flag, exited,
                   botActive, user_states, restoreVars>>

\* if save_config(config_data): MIN_INTERVAL_HOURS = new_interval
TimeSave(w) ==
    /\ ~Halted
    /\ wpc[w] = "time_save"
    /\ \E ok \in SaveResults :
        /\ SaveEffect(wcfg[w], ok)
        /\ MIN_INTERVAL_HOURS' =
              IF ok THEN wcfg[w].min_interval_hours ELSE MIN_INTERVAL_HOURS
        /\ reply' = IF ok THEN "time_updated" ELSE "time_save_error"
    /\ handled' = Event(w, wmsg[w], "second")
    /\ wpc' = [wpc EXCEPT ![w] = "idle"]
    /\ wmsg' = [wmsg EXCEPT ![w] = NoMsg]
    /\ wcfg' = [wcfg EXCEPT ![w] = EmptyCfg]
    /\ UNCHANGED <<now, bot_token, chat_id, execVars, histVars, schedVars,
                   shutdown_flag, exited, botActive, user_states, restoreVars>>

\* ---------------------------------------------------------- Restore Workflow
\* str.endswith
EndsWith(s, suffix) ==
    /\ Len(s) >= Len(suffix)
    /\ SubSeq(s, Len(s) - Len(suffix) + 1, Len(s)) = suffix

\* the suffixes compared without their leading dot
AcceptedSuffixNoDot(name) ==
    EndsWith(name, <<"b", "a", "k">>) \/ EndsWith(name, <<"g", "z">>)

\* file_name.endswith('.bak') or file_name.endswith('.dump.gz')
AcceptedSuffix(name) == EndsWith(name, BakSuffix) \/ EndsWith(name, DumpGzSuffix)

\* a session that always counts as waiting for a file
WaitingAlways(states, chat) == TRUE

\* user_states.get(message.chat.id) != 'waiting_restore'
Waiting(states, chat) == states[chat] = "waiting_restore"

\* handle_document up to the download
handle_document(w, m) ==
    /\ m.kind = "document"
    /\ Takes(w, m)
    /\ IF ~Authorized(m) \/ ~Waiting(user_states, m.sender)
       THEN /\ reply' = "none"
            /\ UNCHANGED workerVars
       ELSE IF ~AcceptedSuffix(m.text)
       THEN /\ reply' = "invalid_format"
            /\ UNCHANGED workerVars
       ELSE /\ reply' = "none"
            /\ wpc' = [wpc EXCEPT ![w] = "doc_download"]
            /\ wmsg' = [wmsg EXCEPT ![w] = m]
            /\ wcfg' = wcfg
    /\ UNCHANGED <<now, cfgVars, execVars, histVars, schedVars, shutdown_flag,
                   exited, botActive, user_states, restoreVars>>

\* the state left as it is
KeepState(states, chat) == states

\* user_states[message.chat.id] = None
ResetState(states, chat) == [states EXCEPT ![chat] = "None"]

\* outcomes of the try block of handle_document
DownloadOutcomes == {"download_failed", "reply_failed", "started"}

\* bot.download_file; write the file; reset the state; reply; start the thread
Download(w) ==
    /\ ~Halted
    /\ wpc[w] = "doc_download"
    /\ \E o \in DownloadOutcomes :
        /\ IF o = "download_failed"
           THEN UNCHANGED <<user_states, tempDir>>
           ELSE /\ tempDir' = tempDir \cup {wmsg[w].text}
                /\ user_states' = ResetState(user_states, wmsg[w].sender)
        /\ IF o = "started"
           THEN /\ \E r \in Restores :
                     /\ rpc[r] = "idle"
                     /\ \A q \in Restores : rpc[q] = "idle" => r <= q
                     /\ rpc' = [rpc EXCEPT ![r] = "running"]
                     /\ rfile' = [rfile EXCEPT ![r] = wmsg[w].text]
                /\ reply' = "restore_started"
           ELSE /\ reply' = "download_error"
                /\ UNCHANGED <<rpc, rfile>>
    /\ handled' = Event(w, wmsg[w], "second")
    /\ wpc' = [wpc EXCEPT ![w] = "idle"]
    /\ wmsg' = [wmsg EXCEPT ![w] = NoMsg]
    /\ UNCHANGED <<now, cfgVars, execVars, histVars, schedVars, shutdown_flag,
                   exited, botActive, wcfg, relayVars>>

\* ------------------------------------------------------ run_restore_process
\* A piece of the child's stdout: the characters lo+1 .. hi of the stream.
Span(lo, hi) == [lo |-> lo, hi |-> hi]
SpanLen(s) == s.hi - s.lo

Min(a, b) == IF a < b THEN a ELSE b

\* the child of subprocess.Popen: "none", "spawned" (running, or exited and
\* not waited for) or "reaped" (process.poll() has returned its exit code).
\* stderr_len: the characters of its stderr output, counted up to
\* FLUSH_THRESHOLD + 1 (the relay treats every longer output alike).
\* stderr_fills_pipe: the child writes more to stderr than the pipe of
\* stderr=subprocess.PIPE holds.
Process(state, script, pos) ==
    [state |-> state, stdout_len |-> script.stdout_len, read_pos |-> pos,
     stderr_len |-> script.stderr_len,
     stderr_fills_pipe |-> script.stderr_fills_pipe, code |-> script.code]

NoScript ==
    [stdout_len |-> 0, stderr_len |-> 0, stderr_fills_pipe |-> FALSE, code |-> 0]
NoProcess == Process("none", NoScript, 0)

\* the runs of RESTORE_SCRIPT
StreamLengths == {0, FLUSH_THRESHOLD, MaxStream}
StderrLengths == {0, 1, FLUSH_THRESHOLD + 1}
RestoreScripts ==
    {s \in [stdout_len : StreamLengths, stderr_len : StderrLengths,
             stderr_fills_pipe : BOOLEAN, code : {0, 1}] :
        s.stderr_fills_pipe => s.stderr_len > FLUSH_THRESHOLD}

\* messages of a restore thread to the chat
ChatMsg(kind, lo, hi) == [kind |-> kind, lo |-> lo, hi |-> hi]

\* a call that raises when ok = FALSE
CallResults == IF callsMayFail THEN {TRUE, FALSE} ELSE {TRUE}

\* bot.send_message(chat_id, ...) of thread r
send_message(r, msg, ok) ==
    sent' = [sent EXCEPT ![r] = IF ok THEN Append(@, msg) ELSE @]

\* the relay with stderr sent before the rest of the output
ContinueStderrFirst(pos) ==
    CASE pos = "running" -> "read"
      [] pos = "read" -> "stderr"
      [] pos = "stderr" -> "flush"
      [] pos = "flush" -> "status"
      [] OTHER -> "remove"

\* the statement after the one at pos, when that one did not raise
Continue(pos) ==
    CASE pos = "running" -> "read"
      [] pos = "read" -> "flush"
      [] pos = "flush" -> "stderr"
      [] pos = "stderr" -> "status"
      [] OTHER -> "remove"

\* where thread r goes from pos: on, or to the except block
Goto(r, pos, ok) == rpc' = [rpc EXCEPT ![r] = IF ok THEN Continue(pos) ELSE "except"]

\* the buffer emptied after a flush
RestDropped(buf) == Span(buf.hi, buf.hi)

\* output_buffer[3500:]
Rest(buf) == Span(Min(buf.lo + FLUSH_THRESHOLD, buf.hi), buf.hi)

\* output_buffer[:3500]
Chunk(buf) == Span(buf.lo, Min(buf.lo + FLUSH_THRESHOLD, buf.hi))

\* process = subprocess.Popen(...); output_buffer = ""
RestoreSpawn(r) ==
    /\ ~Halted
    /\ rpc[r] = "running"
    /\ \E ok \in CallResults :
        /\ process' = [process EXCEPT ![r] =
                         IF ok THEN Process("spawned", restore_script, 0) ELSE @]
        /\ Goto(r, "running", ok)
    /\ output_buffer' = [output_buffer EXCEPT ![r] = Span(0, 0)]
    /\ Quiet
    /\ UNCHANGED <<now, cfgVars, execVars, histVars, schedVars, shutdown_flag,
                   exited, botActive, user_states, workerVars, tempDir, rfile,
                   sent, restore_script, callsMayFail>>

\* The child closes its stdout and exits once it has written all its output.
\* Nothing reads its stderr before the while loop is over, so a child with
\* more stderr output than the pipe holds stays blocked in its write.
ChildExits(p) == ~p.stderr_fills_pipe

\* one iteration of the while loop: output = process.stdout.read(1000), which
\* returns the next characters, or "" once the child has closed the stream;
\* the break when process.poll() is not None; the flush of 3500 characters
RestoreRead(r) ==
    /\ ~Halted
    /\ rpc[r] = "read"
    /\ LET p == process[r]
           output == Span(p.read_pos, Min(p.read_pos + READ_SIZE, p.stdout_len))
           buf == Span(output_buffer[r].lo, output.hi)
       IN IF SpanLen(output) = 0
          THEN /\ ChildExits(p)
               /\ process' = [process EXCEPT ![r].state = "reaped"]
               /\ Goto(r, "read", TRUE)
               /\ UNCHANGED <<output_buffer, sent>>
          ELSE /\ process' = [process EXCEPT ![r].read_pos = output.hi]
               /\ IF SpanLen(buf) >= FLUSH_THRESHOLD
                  THEN \E ok \in CallResults :
                         /\ send_message(r, ChatMsg("stdout", Chunk(buf).lo, Chunk(buf).hi), ok)
                         /\ output_buffer' = [output_buffer EXCEPT ![r] =
                                                IF ok THEN Rest(buf) ELSE buf]
                         /\ rpc' = [rpc EXCEPT ![r] = IF ok THEN "read" ELSE "except"]
                  ELSE /\ output_buffer' = [output_buffer EXCEPT ![r] = buf]
                       /\ UNCHANGED <<rpc, sent>>
    /\ Quiet
    /\ UNCHANGED <<now, cfgVars, execVars, histVars, schedVars, shutdown_flag,
                   exited, botActive, user_states, workerVars, tempDir, rfile,
                   restore_script, callsMayFail>>

\* if output_buffer: bot.send_message(chat_id, output_buffer)
RestoreFlush(r) ==
    /\ ~Halted
    /\ rpc[r] = "flush"
    /\ LET buf == output_buffer[r]
       IN IF SpanLen(buf) > 0
          THEN \E ok \in CallResults :
                 /\ send_message(r, ChatMsg("stdout", buf.lo, buf.hi), ok)
                 /\ Goto(r, "flush", ok)
          ELSE /\ Goto(r, "flush", TRUE)
               /\ UNCHANGED sent
    /\ Quiet
    /\ UNCHANGED <<now, cfgVars, execVars, histVars, schedVars, shutdown_flag,
                   exited, botActive, user_states, workerVars, tempDir, rfile,
                   process, output_buffer, restore_script, callsMayFail>>

\* stderr_output = process.stderr.read(); if stderr_output: bot.send_message
RestoreStderr(r) ==
    /\ ~Halted
    /\ rpc[r] = "stderr"
    /\ IF process[r].stderr_len > 0
       THEN \E ok \in CallResults :
              /\ send_message(r, ChatMsg("stderr", 0, process[r].stderr_len), ok)
              /\ Goto(r, "stderr", ok)
       ELSE /\ Goto(r, "stderr", TRUE)
            /\ UNCHANGED sent
    /\ Quiet
    /\ UNCHANGED <<now, cfgVars, execVars, histVars, schedVars, shutdown_flag,
                   exited, botActive, user_states, workerVars, tempDir, rfile,
                   process, output_buffer, restore_script, callsMayFail>>

\* if process.returncode == 0: send success_msg, else: send error_msg
RestoreStatus(r) ==
    /\ ~Halted
    /\ rpc[r] = "status"
    /\ \E ok \in CallResults :
        /\ send_message(r, ChatMsg(IF process[r].code = 0 THEN "success" ELSE "failure",
                                   0, 0), ok)
        /\ Goto(r, "status", ok)
    /\ Quiet
    /\ UNCHANGED <<now, cfgVars, execVars, histVars, schedVars, shutdown_flag,
                   exited, botActive, user_states, workerVars, tempDir, rfile,
                   process, output_buffer, restore_script, callsMayFail>>

\* the thread of run_restore_process is over
RestoreEnds(r) ==
    /\ rpc' = [rpc EXCEPT ![r] = "idle"]
    /\ rfile' = [rfile EXCEPT ![r] = <<>>]
    /\ process' = [process EXCEPT ![r] = NoProcess]
    /\ output_buffer' = [output_buffer EXCEPT ![r] = Span(0, 0)]
    /\ sent' = [sent EXCEPT ![r] = <<>>]

\* os.remove(file_path) at the end of the try block and of the except block
RestoreRemove(r) ==
    /\ ~Halted
    /\ rpc[r] \in {"remove", "except_remove"}
    /\ tempDir' = tempDir \ {rfile[r]}
    /\ RestoreEnds(r)
    /\ Quiet
    /\ UNCHANGED <<now, cfgVars, execVars, histVars, schedVars, shutdown_flag,
                   exited, botActive, user_states, workerVars, restore_script,
                   callsMayFail>>

\* except Exception as e: bot.send_message(chat_id, error_msg); an exception
\* of this call ends the thread
RestoreExcept(r) ==
    /\ ~Halted
    /\ rpc[r] = "except"
    /\ \E ok \in CallResults :
        IF ok
        THEN /\ send_message(r, ChatMsg("error", 0, 0), TRUE)
             /\ rpc' = [rpc EXCEPT ![r] = "except_remove"]
             /\ UNCHANGED <<rfile, process, output_buffer>>
        ELSE RestoreEnds(r)
    /\ Quiet
    /\ UNCHANGED <<now, cfgVars, execVars, histVars, schedVars, shutdown_flag,
                   exited, botActive, user_states, workerVars, tempDir,
                   restore_script, callsMayFail>>

\* --------------------------------------------------------------------- Init
InitialConfigs ==
    {[bot_token |-> "tok", chat_id |-> c, last_backup |-> 0, min_interval_hours |-> h] :
        c \in {NoneVal, IntVal(TargetChat), StrVal("1")}, h \in {0, 1, 3}}
      \cup {[EmptyCfg EXCEPT !.min_interval_hours = h] : h \in {0, 1, 3}}

Init ==
    /\ now = 1
    /\ file \in InitialConfigs
    /\ bot_token = file.bot_token
    /\ chat_id = file.chat_id
    /\ MIN_INTERVAL_HOURS = DEFAULT_MIN_INTERVAL_HOURS
    /\ faultsLeft \in {0, MaxFaults}
    /\ config_lock = NoHolder
    /\ backup_lock = NoProc
    /\ bpc = [p \in BackupProcs |-> "idle"]
    /\ config_data = [p \in BackupProcs |-> EmptyCfg]
    /\ invoked = [p \in BackupProcs |-> FALSE]
    /\ artifact = [p \in BackupProcs |-> 0]
    /\ upload = [p \in BackupProcs |-> "none"]
    /\ result = [p \in BackupProcs |-> "none"]
    /\ attemptAt = 0
    /\ backupDir = InitialDir
    /\ spc = "loop"
    /\ sleepLeft = 0
    /\ shutdown_flag = FALSE
    /\ exited = FALSE
    /\ botActive = (file.bot_token # "")
    /\ user_states = [c \in Senders |-> "None"]
    /\ wpc = [w \in Workers |-> "idle"]
    /\ wmsg = [w \in Workers |-> NoMsg]
    /\ wcfg = [w \in Workers |-> EmptyCfg]
    /\ tempDir = {}
    /\ rpc = [r \in Restores |-> "idle"]
    /\ rfile = [r \in Restores |-> <<>>]
    /\ process = [r \in Restores |-> NoProcess]
    /\ output_buffer = [r \in Restores |-> Span(0, 0)]
    /\ sent = [r \in Restores |-> <<>>]
    /\ restore_script \in RestoreScripts
    /\ callsMayFail \in BOOLEAN
    /\ handled = NoEvent
    /\ reply = "none"

\* the executor with its callers: the scheduler and the /backup threads
BackupMessages == {Msg(TargetChat, "backup", <<>>)}

\* no restore is part of these behaviours
NoRestoreFaults ==
    /\ restore_script = NoScript
    /\ callsMayFail = FALSE

InitBackup ==
    /\ Init
    /\ NoRestoreFaults
    /\ faultsLeft = 0
    /\ file.min_interval_hours = 0
    /\ file.chat_id.kind # "str"

NextBackup ==
    \/ \E p \in BackupProcs : Enter(p)
    \/ \E p \in BackupProcs : RunScript(p)
    \/ \E p \in BackupProcs : Upload(p)
    \/ \E p \in BackupProcs : Record(p)
    \/ \E p \in BackupProcs : Cleanup(p)
    \/ \E f \in Forced : Notify(f)
    \/ SchedLoop
    \/ SchedReturned
    \/ SchedWake
    \/ Tick
    \/ \E w \in Workers, m \in BackupMessages : handle_backup_command(w, m)

SpecBackup == InitBackup /\ [][NextBackup]_vars

\* the scheduler's executions against /time: the writers of CONFIG_FILE
ConfigMessages == {Msg(TargetChat, "time", <<"0", "3">>)}

NextConfig ==
    \/ Enter(Sched)
    \/ RunScript(Sched)
    \/ Upload(Sched)
    \/ Record(Sched)
    \/ Cleanup(Sched)
    \/ SchedLoop
    \/ SchedReturned
    \/ SchedWake
    \/ Tick
    \/ \E w \in Workers, m \in ConfigMessages : handle_time_command(w, m)
    \/ \E w \in Workers : TimeSave(w)

SpecConfig == InitBackup /\ [][NextConfig]_vars

\* the scheduler alone, over every initial configuration, with failing
\* reads and writes of CONFIG_FILE and with shutdown
NextSched ==
    \/ Enter(Sched)
    \/ RunScript(Sched)
    \/ Upload(Sched)
    \/ Record(Sched)
    \/ Cleanup(Sched)
    \/ SchedLoop
    \/ SchedReturned
    \/ SchedWake
    \/ Tick
    \/ Signal
    \/ MainExit

InitSched == Init /\ NoRestoreFaults

SpecSched == InitSched /\ [][NextSched]_vars

\* every thread that can take a step takes one in the end; the external
\* script and the upload return; time passes
FairSched ==
    /\ WF_vars(Enter(Sched))
    /\ WF_vars(RunScript(Sched))
    /\ WF_vars(Upload(Sched))
    /\ WF_vars(Record(Sched))
    /\ WF_vars(Cleanup(Sched))
    /\ WF_vars(SchedLoop)
    /\ WF_vars(SchedReturned)
    /\ WF_vars(SchedWake)
    /\ WF_vars(Tick)

SpecSchedFair == InitSched /\ [][NextSched]_vars /\ FairSched

\* the command router and the restore workflow
BotMessages ==
    {Msg(s, k, <<>>) : s \in Senders, k \in {"status", "backup", "restore", "cancel"}}
      \cup {Msg(OtherChat, "time", <<"1">>)}
      \cup {Msg(TargetChat, "time", a) : a \in InvalidTimeArgs}
      \cup {Msg(TargetChat, "document", n) : n \in DocNames}
      \cup {Msg(OtherChat, "document", <<"a">> \o BakSuffix)}

InitBot ==
    /\ Init
    /\ NoRestoreFaults
    /\ faultsLeft = 0
    /\ file.min_interval_hours = 0
    /\ file.chat_id.kind # "int"

NextBot ==
    \/ \E w \in Workers, m \in BotMessages : HandleDenied(w, m)
    \/ \E w \in Workers, m \in BotMessages : handle_status_command(w, m)
    \/ \E w \in Workers, m \in BotMessages : handle_backup_command(w, m)
    \/ \E w \in Workers, m \in BotMessages : handle_restore_command(w, m)
    \/ \E w \in Workers, m \in BotMessages : handle_cancel_command(w, m)
    \/ \E w \in Workers, m \in BotMessages : handle_time_command(w, m)
    \/ \E w \in Workers, m \in BotMessages : handle_document(w, m)
    \/ \E w \in Workers : Download(w)

SpecBot == InitBot /\ [][NextBot]_vars

\* the restore threads: /restore, the document, the relay of the output
RestoreMessages ==
    {Msg(TargetChat, "restore", <<>>), Msg(TargetChat, "document", <<"a">> \o BakSuffix)}

InitRestore ==
    /\ Init
    /\ callsMayFail
    /\ faultsLeft = 0
    /\ file.min_interval_hours = 0
    /\ file.chat_id.kind = "str"

\* the restore threads run one after the other: a thread takes a step when no
\* other thread is between its Popen and its end
RestoreTurn(r) == \A q \in Restores \ {r} : rpc[q] \in {"idle", "running"}

NextRestore ==
    \/ \E w \in Workers, m \in RestoreMessages : handle_restore_command(w, m)
    \/ \E w \in Workers, m \in RestoreMessages : handle_document(w, m)
    \/ \E w \in Workers : Download(w)
    \/ \E r \in Restores : RestoreTurn(r) /\ RestoreSpawn(r)
    \/ \E r \in Restores : RestoreTurn(r) /\ RestoreRead(r)
    \/ \E r \in Restores : RestoreTurn(r) /\ RestoreFlush(r)
    \/ \E r \in Restores : RestoreTurn(r) /\ RestoreStderr(r)
    \/ \E r \in Restores : RestoreTurn(r) /\ RestoreStatus(r)
    \/ \E r \in Restores : RestoreTurn(r) /\ RestoreRemove(r)
    \/ \E r \in Restores : RestoreTurn(r) /\ RestoreExcept(r)

SpecRestore == InitRestore /\ [][NextRestore]_vars

\* the restore threads and the termination signal; every thread that can take
\* a step takes it eventually, and so does main() once the flag is set
NextShutdown ==
    \/ NextRestore
    \/ Signal
    \/ MainExit

FairShutdown ==
    /\ \A w \in Workers : WF_vars(Download(w))
    /\ \A r \in Restores :
        /\ WF_vars(RestoreTurn(r) /\ RestoreSpawn(r))
        /\ WF_vars(RestoreTurn(r) /\ RestoreRead(r))
        /\ WF_vars(RestoreTurn(r) /\ RestoreFlush(r))
        /\ WF_vars(RestoreTurn(r) /\ RestoreStderr(r))
        /\ WF_vars(RestoreTurn(r) /\ RestoreStatus(r))
        /\ WF_vars(RestoreTurn(r) /\ RestoreRemove(r))
        /\ WF_vars(RestoreTurn(r) /\ RestoreExcept(r))
    /\ WF_vars(MainExit)

SpecShutdown == InitRestore /\ [][NextShutdown]_vars /\ FairShutdown

\* the two locks within one poll interval: the scheduler's execution, the
\* /backup threads and the /status handlers, each lock operation a step of
\* its own
LockMessages == {Msg(TargetChat, "status", <<>>), Msg(TargetChat, "backup", <<>>)}

InitLocks == InitBackup

NextLocks ==
    \/ \E p \in BackupProcs : EnterLock(p)
    \/ \E p \in BackupProcs : LoadLock(p)
    \/ \E p \in BackupProcs : LoadUnlock(p)
    \/ \E p \in BackupProcs : RunScript(p)
    \/ \E p \in BackupProcs : Upload(p)
    \/ \E p \in BackupProcs : SaveLock(p)
    \/ \E p \in BackupProcs : SaveUnlock(p)
    \/ \E p \in BackupProcs : Cleanup(p)
    \/ \E f \in Forced : Notify(f)
    \/ SchedLoop
    \/ SchedReturned
    \/ \E w \in Workers, m \in LockMessages : handle_backup_command(w, m)
    \/ \E w \in Workers, m \in LockMessages : StatusTake(w, m)
    \/ \E w \in Workers : StatusLock(w)
    \/ \E w \in Workers : StatusUnlock(w)

\* every thread goes on when it can: the scripts and the network calls
\* return, and a free lock is taken by a thread that keeps waiting for it
FairLocks ==
    /\ \A p \in BackupProcs :
        /\ WF_vars(EnterLock(p))
        /\ WF_vars(LoadLock(p))
        /\ WF_vars(LoadUnlock(p))
        /\ WF_vars(RunScript(p))
        /\ WF_vars(Upload(p))
        /\ WF_vars(SaveLock(p))
        /\ WF_vars(SaveUnlock(p))
        /\ WF_vars(Cleanup(p))
    /\ \A f \in Forced : WF_vars(Notify(f))
    /\ WF_vars(SchedLoop)
    /\ WF_vars(SchedReturned)
    /\ \A w \in Workers :
        /\ WF_vars(StatusLock(w))
        /\ WF_vars(StatusUnlock(w))

SpecLocks == InitLocks /\ [][NextLocks]_vars /\ FairLocks

\* the restore threads as the threads they are: each takes its steps whenever
\* it can, whatever the others do; no call raises
InitConcurrent ==
    /\ Init
    /\ ~callsMayFail
    /\ faultsLeft = 0
    /\ file.min_interval_hours = 0
    /\ file.chat_id.kind = "str"

NextConcurrent ==
    \/ \E w \in Workers, m \in RestoreMessages : handle_restore_command(w, m)
    \/ \E w \in Workers, m \in RestoreMessages : handle_document(w, m)
    \/ \E w \in Workers : Download(w)
    \/ \E r \in Restores : RestoreSpawn(r)
    \/ \E r \in Restores : RestoreRead(r)
    \/ \E r \in Restores : RestoreFlush(r)
    \/ \E r \in Restores : RestoreStderr(r)
    \/ \E r \in Restores : RestoreStatus(r)
    \/ \E r \in Restores : RestoreRemove(r)

SpecConcurrent == InitConcurrent /\ [][NextConcurrent]_vars

\* ------------------------------------------------------------------ claims
InCritical(p) == bpc[p] \in {"script", "upload", "record", "cleanup"}

\* C1: at most one caller of run_backup_process is inside the critical
\* section at any time, and a caller that arrives while another execution is
\* in flight stays waiting for it.
C1_MutualExclusion ==
    /\ [](\A p, q \in BackupProcs : InCritical(p) /\ InCritical(q) => p = q)
    /\ [][\A p \in BackupProcs :
            bpc[p] = "wait" /\ (\E q \in BackupProcs : q # p /\ InCritical(q))
              => bpc'[p] = "wait"]_vars

C1_Witness == \E f \in Forced : bpc[f] = "wait" /\ InCritical(Sched)

\* C2: once a /time that set min_interval_hours and a backup execution that
\* set last_backup have both finished, CONFIG_FILE holds both values.
C2_NoLostUpdate ==
    ( /\ \A w \in Workers : wpc[w] = "idle"
      /\ MIN_INTERVAL_HOURS # DEFAULT_MIN_INTERVAL_HOURS
      /\ bpc[Sched] = "returned"
      /\ result[Sched] = "success"
      /\ upload[Sched] \in {"sent", "no_credentials"} )
    => /\ file.min_interval_hours = MIN_INTERVAL_HOURS
       /\ file.last_backup = config_data[Sched].last_backup

\* C3: the last_backup of CONFIG_FILE changes only in the step of a backup
\* execution that has a valid artifact and whose upload succeeded or that had
\* no credentials.
C3_LastBackupOnlyByBackup ==
    [][file'.last_backup # file.last_backup
         => \E p \in BackupProcs :
              /\ bpc[p] = "record" /\ bpc'[p] = "cleanup"
              /\ artifact[p] # 0
              /\ upload[p] \in {"sent", "no_credentials"}]_vars

\* the attempt at time t comes less than h hours after the last_backup of cfg
TooSoon(cfg, t) ==
    /\ cfg.last_backup # 0
    /\ (t - cfg.last_backup) * TickSeconds < MinIntervalOf(cfg) * HourSeconds

C5_ForcedAlwaysRuns ==
    \A f \in Forced : bpc[f] = "returned" => invoked[f] /\ result[f] # "skipped"

C5_Witness ==
    \E f \in Forced :
        /\ bpc[f] = "returned"
        /\ invoked[f]
        /\ result[f] = "failed"
        /\ TooSoon(file, now)

ValidName(name) == EndsWith(name, BakSuffix) \/ EndsWith(name, DumpGzSuffix)

\* the sender of m is the configured target chat
FromTarget(m) == Str(IntVal(m.sender)) = Str(chat_id)

\* the restore threads the step starts for the file of message m
StartedFor(m) ==
    {r \in Restores : rpc[r] = "idle" /\ rpc'[r] = "running" /\ rfile'[r] = m.text}

Started == {r \in Restores : rpc[r] = "idle" /\ rpc'[r] = "running"}

\* the step is the first step of the handler of a message of kind k
FirstStep(k) == handled'.step = "first" /\ handled'.msg.kind = k

C9_RestoreCancelTransitions ==
    [][/\ FirstStep("restore") /\ FromTarget(handled'.msg)
         => /\ user_states' =
                 [user_states EXCEPT ![handled'.msg.sender] = "waiting_restore"]
            /\ reply' = "restore_guide"
            /\ UNCHANGED <<now, cfgVars, execVars, histVars, schedVars,
                           shutdown_flag, exited, botActive, workerVars,
                           restoreVars>>
       /\ ( /\ FirstStep("cancel") /\ FromTarget(handled'.msg)
            /\ user_states[handled'.msg.sender] = "waiting_restore" )
         => /\ user_states' = [user_states EXCEPT ![handled'.msg.sender] = "None"]
            /\ reply' = "cancelled"
       /\ ( /\ FirstStep("cancel") /\ FromTarget(handled'.msg)
            /\ user_states[handled'.msg.sender] # "waiting_restore" )
         => /\ reply' = "no_operation"
            /\ UNCHANGED <<now, cfgVars, execVars, histVars, schedVars,
                           shutdown_flag, exited, botVars>>]_vars

C9_Witness ==
    /\ handled.msg.kind = "cancel"
    /\ reply = "cancelled"
    /\ user_states[handled.msg.sender] = "None"
    /\ \E w \in Workers : wpc[w] = "doc_download"

\* C10: a command from a chat other than the target chat gets the
\* authorization-denied reply and changes nothing.
C10_UnauthorizedNoEffect ==
    [][( /\ handled'.step = "first"
         /\ handled'.msg.kind \in {"status", "backup", "time", "restore", "cancel"}
         /\ ~FromTarget(handled'.msg) )
         => /\ reply' = "unauthorized"
            /\ UNCHANGED <<now, cfgVars, execVars, histVars, schedVars,
                           shutdown_flag, exited, botVars>>]_vars

C10_Witness ==
    /\ handled.msg.sender = OtherChat
    /\ handled.msg.kind = "time"
    /\ reply = "unauthorized"
    /\ user_states[TargetChat] = "waiting_restore"

\* C11: when a restore thread ends, the temporary file it was started for is
\* no longer in TEMP_DIR, whatever path the thread took.
C11_TempFileDeleted ==
    [][\A r \in Restores :
         rpc[r] # "idle" /\ rpc'[r] = "idle" => rfile[r] \notin tempDir']_vars

\* the stdout messages among the messages of thread r, in the order sent
StdoutSent(r) == SelectSeq(sent[r], LAMBDA m : m.kind = "stdout")

\* C12: among the messages of one restore thread every stdout chunk comes
\* before the stderr relay and the status message, the chunks come in the
\* order of the stream, the stderr relay and the status message are sent only
\* once the whole stdout has been sent, the status message comes after the
\* stderr relay when there is stderr output, and nothing follows the status
\* message.
C12_RelayOrder ==
    \A r \in Restores :
        \A j \in 1..Len(sent[r]) :
            /\ \A i \in 1..(j - 1) :
                /\ sent[r][i].kind \notin {"success", "failure"}
                /\ sent[r][j].kind = "stdout"
                     => sent[r][i].kind = "stdout" /\ sent[r][i].hi <= sent[r][j].lo
                /\ sent[r][j].kind = "stderr" => sent[r][i].kind = "stdout"
            /\ sent[r][j].kind \in {"stderr", "success", "failure"}
                 => /\ process[r].stdout_len > 0
                      => /\ Len(StdoutSent(r)) > 0
                         /\ StdoutSent(r)[Len(StdoutSent(r))].hi = process[r].stdout_len
                    /\ Len(StdoutSent(r)) < j
            /\ sent[r][j].kind \in {"success", "failure"} /\ process[r].stderr_len > 0
                 => j > 1 /\ sent[r][j - 1].kind = "stderr"

C12_Witness ==
    \E r \in Restores :
        /\ rpc[r] = "remove"
        /\ Len(sent[r]) = 5
        /\ sent[r][3].kind = "stdout"
        /\ sent[r][4].kind = "stderr"
        /\ sent[r][5].kind = "failure"

\* the i-th of the consecutive T-character slices of a stream of length l
Slice(i, l, t) == Span((i - 1) * t, IF i * t < l THEN i * t ELSE l)

\* ceil(l / t)
SliceCount(l, t) == (l + t - 1) \div t

\* C13: the stdout messages of a restore thread are, in order, the first
\* consecutive FLUSH_THRESHOLD-character slices of the child's stdout, and
\* once the thread is past the relay of stdout they are all of them: exactly
\* ceil(L / FLUSH_THRESHOLD) messages, the last one the non-empty remainder.
C13_StdoutSlices ==
    \A r \in Restores :
        LET out == StdoutSent(r)
            l == process[r].stdout_len
        IN /\ Len(out) <= SliceCount(l, FLUSH_THRESHOLD)
           /\ \A i \in 1..Len(out) :
                /\ Span(out[i].lo, out[i].hi) = Slice(i, l, FLUSH_THRESHOLD)
                /\ out[i].hi > out[i].lo
           /\ rpc[r] \in {"stderr", "status", "remove"}
                => Len(out) = SliceCount(l, FLUSH_THRESHOLD)

C13_Witness ==
    \E r \in Restores :
        /\ rpc[r] = "stderr"
        /\ process[r].stdout_len = MaxStream
        /\ Len(StdoutSent(r)) = 3
        /\ StdoutSent(r)[3].hi - StdoutSent(r)[3].lo = MaxStream - 2 * FLUSH_THRESHOLD

\* C14: no caller of run_backup_process is in the upload to the chat while it
\* holds backup_lock.
C14_NoNetworkUnderLock ==
    \A p \in BackupProcs : bpc[p] = "upload" => backup_lock # p

\* C15: when the process is gone, no backup execution has been cut short:
\* an execution that was in flight at the termination request has returned.
C15_GracefulExit ==
    Halted => \A p \in BackupProcs : ~InCritical(p)

\* C16: when a restore thread that spawned a child ends, the child has been
\* waited for.
C16_ChildReaped ==
    [][\A r \in Restores :
         rpc[r] # "idle" /\ rpc'[r] = "idle" /\ process[r].state # "none"
           => process[r].state = "reaped"]_vars

\* the file is older than the retention horizon at time t
OlderThanHorizon(f, t) == (t - f.mtime) * TickSeconds > RETENTION_DAYS * DaySeconds

\* C17: when an execution that ran the backup script returns, no file with
\* the artifact suffix older than the retention horizon is left in BACKUP_DIR.
C17_SweepEveryCycle ==
    [][\A p \in BackupProcs :
         bpc[p] # "returned" /\ bpc'[p] = "returned" /\ invoked'[p]
           => \A f \in backupDir' : ~(f.artifact_suffix /\ OlderThanHorizon(f, now))]_vars

\* C18: the sweep of a successful execution removes from BACKUP_DIR exactly
\* the files that carry the artifact suffix and are older than the retention
\* horizon; every other file, the execution's own artifact apart, stays.
C18_SweepExact ==
    [][\A p \in BackupProcs :
         bpc[p] = "cleanup" /\ bpc'[p] = "returned"
           => backupDir' =
                {f \in backupDir :
                    /\ f.path # artifact[p]
                    /\ ~(f.artifact_suffix /\ OlderThanHorizon(f, now))}]_vars

C18_Witness ==
    /\ \E p \in BackupProcs : bpc[p] = "returned" /\ result[p] = "success"
    /\ \A f \in InitialDir :
         f \in backupDir <=> f.path \in {-2, -3, -4}

\* the text is a decimal integer greater than zero
PositiveInteger(text) ==
    /\ Len(text) > 0
    /\ \A i \in 1..Len(text) : text[i] \in Digits
    /\ \E i \in 1..Len(text) : text[i] # "0"

\* C19: a /time from the target chat whose argument is missing, not an
\* integer or not greater than zero gets a rejection reply and changes neither
\* CONFIG_FILE nor MIN_INTERVAL_HOURS.
C19_InvalidTimeRejected ==
    [][( /\ FirstStep("time")
         /\ FromTarget(handled'.msg)
         /\ ~PositiveInteger(handled'.msg.text) )
         => /\ reply' \in {"time_help", "time_not_positive"}
            /\ UNCHANGED <<file, MIN_INTERVAL_HOURS, workerVars>>]_vars

\* C20: the min_interval_hours of CONFIG_FILE changes only in the step that
\* accepts a /time, and is then the number of that /time.
C20_IntervalPersisted ==
    [][file'.min_interval_hours # file.min_interval_hours
         => /\ handled'.step = "second"
            /\ handled'.msg.kind = "time"
            /\ reply' = "time_updated"
            /\ file'.min_interval_hours = IntOf(handled'.msg.text)]_vars

C24_InvalidArtifactFails ==
    [][\A p \in BackupProcs :
         /\ bpc[p] = "script"
         /\ bpc'[p] # "script"
         /\ ~\E f \in backupDir' : f.path = now /\ f.size > 0
         => /\ bpc'[p] = "returned"
            /\ result'[p] = "failed"
            /\ upload'[p] = "none"
            /\ artifact'[p] = 0
            /\ backup_lock' = NoProc
            /\ file' = file]_vars

C24_Witness ==
    \E p \in BackupProcs :
        /\ bpc[p] = "returned"
        /\ result[p] = "failed"
        /\ invoked[p]
        /\ \E f \in backupDir : f.path = now /\ f.size = 0

C25_DocumentWhileIdleIgnored ==
    [][( /\ FirstStep("document")
         /\ FromTarget(handled'.msg)
         /\ user_states[handled'.msg.sender] # "waiting_restore" )
         => /\ reply' = "none"
            /\ UNCHANGED <<user_states, workerVars, restoreVars>>]_vars

C25_Witness ==
    /\ handled.step = "first"
    /\ handled.msg.kind = "document"
    /\ FromTarget(handled.msg)
    /\ ValidName(handled.msg.text)
    /\ user_states[handled.msg.sender] # "waiting_restore"
    /\ reply = "none"
    /\ \A w \in Workers : wpc[w] = "idle"

\* C28: the check of the session state is passed by at most one document
\* handler per chat at a time: no two handler threads are between the check
\* and the reset (at the download) for documents of the same chat, so that one
\* accepted /restore starts at most one restore.
C28_OneRestorePerRestoreCommand ==
    \A w, v \in Workers :
        ( /\ wpc[w] = "doc_download"
          /\ wpc[v] = "doc_download"
          /\ wmsg[w].sender = wmsg[v].sender )
        => w = v

\* C30: a restore thread that is in its read loop always gets out of it: the
\* relay never waits forever for the end of a stdout that the child cannot
\* reach because it is blocked writing stderr.
C30_RelayNeverBlocks ==
    \A r \in Restores : (rpc[r] = "read") ~> (rpc[r] # "read")

\* C22: once the termination signal has set the flag the process is gone
\* eventually, provided the chat stops sending messages at some point.
C22_ProcessExits ==
    (<>[](handled.step = "none")) => (shutdown_flag ~> Halted)

\* C29: at most one restore subprocess runs at any time: no two restore
\* threads have a child that was spawned and has not been waited for.
C29_OneRestoreAtATime ==
    \A r, q \in Restores :
        process[r].state = "spawned" /\ process[q].state = "spawned" => r = q

\* the holder of config_lock is inside load_config or save_config
HolderInsideConfigIO ==
    /\ \A p \in BackupProcs :
         config_lock = ExecThread(p) => bpc[p] \in {"load_locked", "save_locked"}
    /\ \A w \in Workers :
         config_lock = HandlerThread(w) => wpc[w] = "status_locked"

\* no thread is waiting for backup_lock or for config_lock
NoWaiters ==
    /\ \A p \in BackupProcs : bpc[p] \notin {"wait", "load", "record"}
    /\ \A w \in Workers : wpc[w] # "status_load"

\* C26: the thread that holds config_lock is inside load_config or
\* save_config: it never waits for backup_lock and is never at the backup
\* script or the upload; and no thread waits for backup_lock or config_lock
\* for ever: when scripts and uploads return, then again and again either no
\* thread is waiting for a lock or the chat has sent one more command.
C26_NoLockDeadlock ==
    /\ []HolderInsideConfigIO
    /\ [](\A p \in BackupProcs :
            bpc[p] \in {"wait", "script", "upload"} => config_lock # ExecThread(p))
    /\ []<>(NoWaiters \/ handled.step # "none")

C26_Witness ==
    \E p, q \in BackupProcs : \E w \in Workers :
        /\ p # q
        /\ bpc[p] = "wait"
        /\ backup_lock = q
        /\ bpc[q] = "load"
        /\ config_lock = HandlerThread(w)

\* C31: the step of a backup execution that writes CONFIG_FILE changes no
\* field of it other than last_backup: bot_token, chat_id and
\* min_interval_hours are the ones stored before the step.
C31_OnlyLastBackupChanged ==
    [][\A p \in BackupProcs :
         bpc[p] = "record" /\ bpc'[p] = "cleanup"
           => /\ file'.bot_token = file.bot_token
              /\ file'.chat_id = file.chat_id
              /\ file'.min_interval_hours = file.min_interval_hours]_vars

\* C32: every message of a restore thread that carries output of the
\* subprocess (a stdout chunk, the remainder, the stderr relay) carries at
\* most FLUSH_THRESHOLD characters of it.
C32_MessagesWithinThreshold ==
    \A r \in Restores :
        \A i \in 1..Len(sent[r]) :
            sent[r][i].kind \in {"stdout", "stderr"}
              => sent[r][i].hi - sent[r][i].lo <= FLUSH_THRESHOLD

====
